---- MODULE Spec2Model ----
(***************************************************************************)
(* Model of clans-rs: the clans collection of the document store and the   *)
(* route handlers that read and write it.                                  *)
(*                                                                         *)
(* A clan document is a record; the collection is the set of documents     *)
(* (the unique index on "id" keeps at most one document per id).  Strings  *)
(* whose length matters (clan name, tag) are sequences of the UTF-8 byte   *)
(* lengths of their characters.  Every handler is one action: it resolves  *)
(* the clan, runs its guards on the loaded document, and performs its one  *)
(* store write.  `last` is the status byte of the response most recently   *)
(* emitted (SUCCESS before the first request); under SpecList, whose       *)
(* requests are the list operations, it is the whole list response.        *)
(* `players` is the players collection get_clan_list writes to.            *)
(***************************************************************************)
EXTENDS Integers, Sequences, FiniteSets, Bags, TLC

VARIABLES clans, players, last

vars == <<clans, players, last>>

----------------------------------------------------------------------------
(* Bounds of the model *)

\* Longest member list the model lets a handler write.
MaxMembers == 3

\* Longest blacklist the model lets a handler write.
MaxBlacklist == 2

\* Longest announcement board the model lets a handler write.
MaxAnnouncements == 2

\* Last reading of the clock (seconds) the model considers.
MaxTime == 2

----------------------------------------------------------------------------
(* Role, Status, Platform, error codes *)

RoleUnknown == 0
RoleNonMember == 1
RoleMember == 2
RoleSubLeader == 3
RoleLeader == 4

StatusUnknown == 0
StatusMember == 1
StatusInvited == 2
StatusPending == 3

Console == "Console"
Emulator == "Emulator"

SUCCESS == 0
InvalidNpId == 5
InternalServerError == 7
Blacklisted == 17
InvalidEnvironment == 29
NoSuchClan == 48
PermissionDenied == 52
ClanLeaderLimitReached == 54
ClanJoinedLimitReached == 56
MemberStatusInvalid == 57
ClanLeaderCannotLeave == 59
NoSuchClanAnnouncement == 67
NoSuchBlacklistEntry == 70

\* Not a status byte: the handler task panicked on `unwrap()` and emitted no
\* envelope.
Panicked == 256

\* impl From<u32> for Role
RoleFrom(n) == IF n \in 1..4 THEN n ELSE RoleUnknown

\* Limits of entities/clan.rs.  The values below are the ones the model runs
\* with; the handlers only compare against them.
MAX_CLAN_MEMBERSHIP == 2
MAX_CLAN_OWNERSHIP == 1
MAX_CLAN_NAME_LENGTH == 2
MAX_CLAN_TAG_LENGTH == 1

----------------------------------------------------------------------------
(* Inputs *)

\* Clan ids `Clan::default` can draw (1..MAX_CLAN_COUNT in the code).
Ids == {1}

\* The session tickets requests are made with: identity and signer.
Tickets ==
    { [username |-> "alice", domain |-> "a1", region |-> "us", platform |-> Console],
      [username |-> "bob",   domain |-> "a1", region |-> "us", platform |-> Console],
      [username |-> "carol", domain |-> "un", region |-> "br", platform |-> Emulator] }

\* impl From<Ticket> for Jid
JidFrom(ticket) ==
    [username |-> ticket.username, domain |-> ticket.domain, region |-> ticket.region]

\* Platform::from(ticket): the signer of the ticket.
PlatformFrom(ticket) == ticket.platform

\* JIDs a request can name as its target.
Jids == { JidFrom(t) : t \in Tickets }

\* A `jid: String` field of a request: either parses to a Jid or does not.
JidStrings == [valid : {TRUE}, jid : Jids]
                \cup { [valid |-> FALSE, jid |-> CHOOSE j \in Jids : TRUE] }

\* Names and tags a create_clan request can carry.
NameInputs == { <<1, 1, 1>>, <<2, 2, 2>> }
TagInputs == { <<1>>, <<2, 2>> }

\* The `role: u32` field of a change_member_role request.
RoleInputs == 0..4

\* What the store does with the calls of one request.
DbOutcomes == { "ok", "read_err", "write_err" }

----------------------------------------------------------------------------
(* Jid, Player, Clan *)

\* impl PartialEq for Jid: username only.
JidEq(a, b) == a.username = b.username

\* Jid::to_string, as stored in the collection and matched by filters.
JidString(j) == <<j.username, j.domain, j.region>>

\* Player { jid, role, status, ..Default::default() }
Player(jid, role, status) == [jid |-> jid, role |-> role, status |-> status]

\* String::chars().take(n)
Take(s, n) == SubSeq(s, 1, IF Len(s) < n THEN Len(s) ELSE n)

RECURSIVE ByteLen(_)
\* String::len(): UTF-8 bytes.
ByteLen(s) == IF s = <<>> THEN 0 ELSE Head(s) + ByteLen(Tail(s))

\* Option<T> as a sequence of length 0 or 1.
None == <<>>
Some(v) == <<v>>

\* Option::iter; `opt.map_or(false, |v| p(v))` is `\E v \in iter(opt) : p(v)`.
iter(opt) == { opt[i] : i \in 1..Len(opt) }

\* Iterator::position / find: index of the first row matching jid, 0 if none.
position(members, jid) ==
    LET hits == { i \in 1..Len(members) : JidEq(members[i].jid, jid) }
    IN  IF hits = {} THEN 0 ELSE CHOOSE i \in hits : \A k \in hits : i <= k

\* Clan::role_of
role_of(clan, jid) ==
    LET i == position(clan.members, jid)
    IN  IF i = 0 THEN None ELSE Some(clan.members[i].role)

\* Clan::status_of
status_of(clan, jid) ==
    LET i == position(clan.members, jid)
    IN  IF i = 0 THEN None ELSE Some(clan.members[i].status)

\* Clan::is_blacklisted
is_blacklisted(clan, jid) ==
    \E i \in 1..Len(clan.blacklist) : JidEq(clan.blacklist[i], jid)

\* Clan::owner: the first member whose role is Leader.
owner(clan) ==
    LET hits == { i \in 1..Len(clan.members) : clan.members[i].role = RoleLeader }
    IN  IF hits = {} THEN None
        ELSE Some(clan.members[CHOOSE i \in hits : \A k \in hits : i <= k])

\* Vec::retain(|p| p.jid != jid)
retain_not(members, jid) == SelectSeq(members, LAMBDA p : ~JidEq(p.jid, jid))

\* Clan::default with the fields From<CreateClan> sets.
ClanFrom(id, name, tag, ticket) ==
    [id |-> id,
     name |-> name,
     tag |-> tag,
     members |-> <<Player(JidFrom(ticket), RoleLeader, StatusMember)>>,
     blacklist |-> <<>>,
     announcements |-> <<>>,
     auto_accept |-> FALSE,
     platform |-> PlatformFrom(ticket)]

----------------------------------------------------------------------------
(* The clans collection *)

\* find_one({ id }): the documents with this id (none or one).
find_one(id) == { c \in clans : c.id = id }

\* A save that merges into the stored document: member rows the stored
\* document has beyond the written one are kept. C33 does not hold of it.
save_merged(clan) ==
    { c \in clans : c.id # clan.id }
        \cup { [clan EXCEPT !.members =
                    IF \E c \in find_one(clan.id) : Len(c.members) > Len(@)
                    THEN (CHOOSE c \in find_one(clan.id) : TRUE).members
                    ELSE @] }

\* Clan::save: replace_one({ id }, clan).upsert(true)
save(clan) == { c \in clans : c.id # clan.id } \cup { clan }

\* replace_one({ id }, clan) without upsert.
replace_one(clan) == IF find_one(clan.id) = {} THEN clans ELSE save(clan)

\* Clan::delete: delete_one({ id })
delete(clan) == { c \in clans : c.id # clan.id }

\* Jid::clans: every clan with a member row equal to jid.
clans_of(jid) ==
    { c \in clans : \E i \in 1..Len(c.members) : JidEq(c.members[i].jid, jid) }

\* find({ $and: [{ members.jid }, { members.status: Member }] }): documents
\* with a row carrying this jid string and a row carrying status Member.
find_member_clans(jid) ==
    { c \in clans :
        /\ \E i \in 1..Len(c.members) : JidString(c.members[i].jid) = JidString(jid)
        /\ \E i \in 1..Len(c.members) : c.members[i].status = StatusMember }

----------------------------------------------------------------------------
(* Responses *)

Respond(status) == last' = status

\* What a handler body decides: the status, and on success the document and
\* the store call that persists it.
Reject(status) == [status |-> status, write |-> "none"]
Accept(write, clan) == [status |-> SUCCESS, write |-> write, clan |-> clan]

\* A commit in two store calls, cut after the first: the document is stored
\* with its first member row only. C34 does not hold of it.
written_in_part(r) ==
    IF r.write = "none"
    THEN clans
    ELSE save([r.clan EXCEPT !.members = Take(@, 1)])

\* The collection after the handler's store call (none on a rejection).
Written(r) ==
    CASE r.write = "save" -> save(r.clan)
      [] r.write = "replace_one" -> replace_one(r.clan)
      [] r.write = "delete" -> delete(r.clan)
      [] r.write = "none" -> clans

\* The model's caps on what is written.
WithinBounds(r) ==
    r.status = SUCCESS =>
        /\ Len(r.clan.members) <= MaxMembers
        /\ Len(r.clan.blacklist) <= MaxBlacklist
        /\ Len(r.clan.announcements) <= MaxAnnouncements

\* `if let Err(e) = clan.save(..).await { return Response::error(e) }`
saved(r, db) ==
    IF r.status = SUCCESS /\ db = "write_err" THEN Reject(InternalServerError) ELSE r

\* Clan::resolve: the loaded clan, or the error the handler returns with.
resolve(id, db) ==
    IF db = "read_err"
    THEN Reject(InternalServerError)
    ELSE IF find_one(id) = {}
    THEN Reject(NoSuchClan)
    ELSE [status |-> SUCCESS, write |-> "none", clan |-> CHOOSE c \in find_one(id) : TRUE]

----------------------------------------------------------------------------
(* routes/clans.rs *)

\* create_clan, after the author's clans were fetched.
create_clan_body(ticket, id, name, tag) ==
    LET author == JidFrom(ticket)
        clan == [ClanFrom(id, name, tag, ticket) EXCEPT
                    !.name = Take(name, MAX_CLAN_NAME_LENGTH),
                    !.tag = Take(tag, MAX_CLAN_TAG_LENGTH)]
        mine == clans_of(author)
        clans_owned_len ==
            Cardinality({ c \in mine :
                (\E o \in iter(owner(c)) : JidEq(o.jid, author)) })
        clans_member_len ==
            Cardinality({ c \in mine : status_of(c, author) = Some(StatusMember) })
    IN  IF ByteLen(clan.name) > MAX_CLAN_NAME_LENGTH
           \/ ByteLen(clan.tag) > MAX_CLAN_TAG_LENGTH
        THEN Reject(PermissionDenied)
        ELSE IF clans_member_len >= MAX_CLAN_MEMBERSHIP
        THEN Reject(ClanJoinedLimitReached)
        ELSE IF clans_owned_len >= MAX_CLAN_OWNERSHIP
        THEN Reject(ClanLeaderLimitReached)
        ELSE Accept("save", clan)

create_clan(ticket, id, name, tag, db) ==
    \E body \in { create_clan_body(ticket, id, name, tag) } :
    \E r \in { IF body.status # PermissionDenied /\ db = "read_err"
               THEN Reject(InternalServerError)
               ELSE saved(body, db) } :
        /\ WithinBounds(r)
        /\ Respond(r.status)
        /\ clans' = Written(r)
        /\ UNCHANGED players

disband_clan_body(clan, jid) ==
    IF owner(clan) = None
    THEN Reject(InternalServerError)
    ELSE IF ~JidEq(owner(clan)[1].jid, jid)
    THEN Reject(PermissionDenied)
    ELSE Accept("delete", clan)

disband_clan(ticket, id, db) ==
    \E got \in { resolve(id, db) } :
    \E r \in { IF got.status # SUCCESS
               THEN got
               ELSE saved(disband_clan_body(got.clan, JidFrom(ticket)), db) } :
        /\ WithinBounds(r)
        /\ Respond(r.status)
        /\ clans' = Written(r)
        /\ UNCHANGED players

----------------------------------------------------------------------------
(* routes/members.rs *)

\* A kick that saves the clan without the target before it checks the
\* target's role: C37 does not hold of it.
kick_member_before_check(clan, author, target) ==
    IF ~(\E role \in iter(role_of(clan, author)) : role >= RoleSubLeader)
    THEN Reject(PermissionDenied)
    ELSE IF (\E status \in iter(status_of(clan, target)) : status # StatusMember)
    THEN Reject(MemberStatusInvalid)
    ELSE [status |-> IF (\E role \in iter(role_of(clan, target)) : role >= RoleSubLeader)
                     THEN PermissionDenied ELSE SUCCESS,
          write |-> "save",
          clan |-> [clan EXCEPT !.members = retain_not(clan.members, target)]]

kick_member_body(clan, author, target) ==
    IF ~(\E role \in iter(role_of(clan, author)) : role >= RoleSubLeader)
    THEN Reject(PermissionDenied)
    ELSE IF (\E status \in iter(status_of(clan, target)) : status # StatusMember)
    THEN Reject(MemberStatusInvalid)
    ELSE IF (\E role \in iter(role_of(clan, target)) : role >= RoleSubLeader)
    THEN Reject(PermissionDenied)
    ELSE Accept("save", [clan EXCEPT !.members = retain_not(clan.members, target)])

kick_member(ticket, id, jid, db) ==
    \E got \in { IF ~jid.valid THEN Reject(InvalidNpId) ELSE resolve(id, db) } :
    \E r \in { IF got.status # SUCCESS
               THEN got
               ELSE saved(kick_member_body(got.clan, JidFrom(ticket), jid.jid), db) } :
        /\ WithinBounds(r)
        /\ Respond(r.status)
        /\ clans' = Written(r)
        /\ UNCHANGED players

change_member_role_body(clan, author, target, role) ==
    IF ~(\E r \in iter(role_of(clan, author)) : r >= RoleSubLeader)
    THEN Reject(PermissionDenied)
    ELSE IF (\E status \in iter(status_of(clan, target)) : status # StatusMember)
    THEN Reject(MemberStatusInvalid)
    ELSE IF position(clan.members, target) = 0
    THEN Reject(Panicked)
    ELSE Accept("save",
            [clan EXCEPT !.members[position(clan.members, target)].role = RoleFrom(role)])

change_member_role(ticket, id, jid, role, db) ==
    \E got \in { IF ~jid.valid THEN Reject(InvalidNpId) ELSE resolve(id, db) } :
    \E r \in { IF got.status # SUCCESS
               THEN got
               ELSE saved(change_member_role_body(got.clan, JidFrom(ticket), jid.jid, role), db) } :
        /\ WithinBounds(r)
        /\ Respond(r.status)
        /\ clans' = Written(r)
        /\ UNCHANGED players

join_clan_body(clan, author) ==
    IF \E i \in 1..Len(clan.members) : JidEq(clan.members[i].jid, author)
    THEN Reject(MemberStatusInvalid)
    ELSE IF ~clan.auto_accept
    THEN Reject(PermissionDenied)
    ELSE Accept("save",
            [clan EXCEPT !.members = Append(@, Player(author, RoleMember, StatusUnknown))])

join_clan(ticket, id, db) ==
    \E got \in { resolve(id, db) } :
    \E r \in { IF got.status # SUCCESS
               THEN got
               ELSE saved(join_clan_body(got.clan, JidFrom(ticket)), db) } :
        /\ WithinBounds(r)
        /\ Respond(r.status)
        /\ clans' = Written(r)
        /\ UNCHANGED players

leave_clan_body(clan, author) ==
    IF ~(\E status \in iter(status_of(clan, author)) : status = StatusMember)
    THEN Reject(MemberStatusInvalid)
    ELSE Accept("save", [clan EXCEPT !.members = retain_not(clan.members, author)])

leave_clan(ticket, id, db) ==
    \E got \in { resolve(id, db) } :
    \E r \in { IF got.status # SUCCESS
               THEN got
               ELSE saved(leave_clan_body(got.clan, JidFrom(ticket)), db) } :
        /\ WithinBounds(r)
        /\ Respond(r.status)
        /\ clans' = Written(r)
        /\ UNCHANGED players

----------------------------------------------------------------------------
(* routes/invites.rs *)

\* An invitation that pushes the row with the role Member: C38 does not
\* hold of it.
send_invitation_as_member(clan, jid, target) ==
    IF ~(\E role \in iter(role_of(clan, jid)) : role >= RoleMember)
    THEN Reject(PermissionDenied)
    ELSE IF (\E status \in iter(status_of(clan, target)) :
                status = StatusMember \/ status = StatusInvited)
    THEN Reject(MemberStatusInvalid)
    ELSE IF is_blacklisted(clan, jid)
    THEN Reject(Blacklisted)
    ELSE Accept("save",
            [clan EXCEPT !.members = Append(@, Player(target, RoleMember, StatusInvited))])

send_invitation_body(clan, jid, target) ==
    IF ~(\E role \in iter(role_of(clan, jid)) : role >= RoleMember)
    THEN Reject(PermissionDenied)
    ELSE IF (\E status \in iter(status_of(clan, target)) :
                status = StatusMember \/ status = StatusInvited)
    THEN Reject(MemberStatusInvalid)
    ELSE IF is_blacklisted(clan, jid)
    THEN Reject(Blacklisted)
    ELSE Accept("save",
            [clan EXCEPT !.members = Append(@, Player(target, RoleNonMember, StatusInvited))])

send_invitation(ticket, id, target, db) ==
    \E got \in { resolve(id, db) } :
    \E r \in { IF got.status # SUCCESS
               THEN got
               ELSE saved(send_invitation_body(got.clan, JidFrom(ticket), target), db) } :
        /\ WithinBounds(r)
        /\ Respond(r.status)
        /\ clans' = Written(r)
        /\ UNCHANGED players

cancel_invitation_body(clan, jid, target) ==
    IF ~(\E role \in iter(role_of(clan, jid)) : role >= RoleMember)
    THEN Reject(PermissionDenied)
    ELSE IF (\E status \in iter(status_of(clan, target)) : status # StatusInvited)
    THEN Reject(MemberStatusInvalid)
    ELSE Accept("save", [clan EXCEPT !.members = retain_not(clan.members, target)])

cancel_invitation(ticket, id, target, db) ==
    \E got \in { resolve(id, db) } :
    \E r \in { IF got.status # SUCCESS
               THEN got
               ELSE saved(cancel_invitation_body(got.clan, JidFrom(ticket), target), db) } :
        /\ WithinBounds(r)
        /\ Respond(r.status)
        /\ clans' = Written(r)
        /\ UNCHANGED players

\* The guards of accept_invitation up to the membership count.
accept_invitation_guard(clan, jid, platform) ==
    IF is_blacklisted(clan, jid)
    THEN Blacklisted
    ELSE IF ~(\E status \in iter(status_of(clan, jid)) : status = StatusInvited)
    THEN MemberStatusInvalid
    ELSE IF clan.platform # platform
    THEN InvalidEnvironment
    ELSE SUCCESS

\* The caller's row becomes a full member.
accepted(clan, jid) ==
    [clan EXCEPT !.members[position(clan.members, jid)] =
        [@ EXCEPT !.status = StatusMember, !.role = RoleMember]]

accept_invitation_body(clan, jid, platform, db) ==
    IF accept_invitation_guard(clan, jid, platform) # SUCCESS
    THEN Reject(accept_invitation_guard(clan, jid, platform))
    ELSE IF db = "find_err"
    THEN Reject(InternalServerError)
    ELSE IF Cardinality(find_member_clans(jid)) >= MAX_CLAN_MEMBERSHIP
    THEN Reject(ClanJoinedLimitReached)
    ELSE Accept("save", accepted(clan, jid))

accept_invitation(ticket, id, db) ==
    \E got \in { resolve(id, db) } :
    \E r \in { IF got.status # SUCCESS
               THEN got
               ELSE saved(accept_invitation_body(got.clan, JidFrom(ticket),
                                                 PlatformFrom(ticket), db), db) } :
        /\ WithinBounds(r)
        /\ Respond(r.status)
        /\ clans' = Written(r)
        /\ UNCHANGED players

decline_invitation_body(clan, jid) ==
    IF ~(\E status \in iter(status_of(clan, jid)) : status = StatusInvited)
    THEN Reject(MemberStatusInvalid)
    ELSE Accept("save", [clan EXCEPT !.members = retain_not(clan.members, jid)])

decline_invitation(ticket, id, db) ==
    \E got \in { resolve(id, db) } :
    \E r \in { IF got.status # SUCCESS
               THEN got
               ELSE saved(decline_invitation_body(got.clan, JidFrom(ticket)), db) } :
        /\ WithinBounds(r)
        /\ Respond(r.status)
        /\ clans' = Written(r)
        /\ UNCHANGED players

\* The guards of request_membership up to the membership count.
request_membership_guard(clan, jid, platform) ==
    IF (\E status \in iter(status_of(clan, jid)) : \/ status = StatusMember
                              \/ status = StatusInvited
                              \/ status = StatusPending)
    THEN MemberStatusInvalid
    ELSE IF is_blacklisted(clan, jid)
    THEN Blacklisted
    ELSE IF clan.platform # platform
    THEN InvalidEnvironment
    ELSE SUCCESS

request_membership_body(clan, jid, platform, db) ==
    IF request_membership_guard(clan, jid, platform) # SUCCESS
    THEN Reject(request_membership_guard(clan, jid, platform))
    ELSE IF db = "find_err"
    THEN Reject(InternalServerError)
    ELSE IF Cardinality(find_member_clans(jid)) >= MAX_CLAN_MEMBERSHIP
    THEN Reject(ClanJoinedLimitReached)
    ELSE Accept("save",
            [clan EXCEPT !.members = Append(@,
                IF clan.auto_accept
                THEN Player(jid, RoleMember, StatusMember)
                ELSE Player(jid, RoleNonMember, StatusPending))])

request_membership(ticket, id, db) ==
    \E got \in { resolve(id, db) } :
    \E r \in { IF got.status # SUCCESS
               THEN got
               ELSE saved(request_membership_body(got.clan, JidFrom(ticket),
                                                  PlatformFrom(ticket), db), db) } :
        /\ WithinBounds(r)
        /\ Respond(r.status)
        /\ clans' = Written(r)
        /\ UNCHANGED players

cancel_request_membership_body(clan, jid) ==
    IF ~(\E status \in iter(status_of(clan, jid)) : status = StatusPending)
    THEN Reject(MemberStatusInvalid)
    ELSE Accept("save", [clan EXCEPT !.members = retain_not(clan.members, jid)])

cancel_request_membership(ticket, id, db) ==
    \E got \in { resolve(id, db) } :
    \E r \in { IF got.status # SUCCESS
               THEN got
               ELSE saved(cancel_request_membership_body(got.clan, JidFrom(ticket)), db) } :
        /\ WithinBounds(r)
        /\ Respond(r.status)
        /\ clans' = Written(r)
        /\ UNCHANGED players

accept_membership_request_body(clan, jid, target) ==
    IF ~(\E role \in iter(role_of(clan, jid)) : role >= RoleMember)
    THEN Reject(PermissionDenied)
    ELSE IF is_blacklisted(clan, jid)
    THEN Reject(Blacklisted)
    ELSE IF ~(\E status \in iter(status_of(clan, target)) : status = StatusPending)
    THEN Reject(MemberStatusInvalid)
    ELSE Accept("save", accepted(clan, target))

accept_membership_request(ticket, id, target, db) ==
    \E got \in { resolve(id, db) } :
    \E r \in { IF got.status # SUCCESS
               THEN got
               ELSE saved(accept_membership_request_body(got.clan, JidFrom(ticket), target), db) } :
        /\ WithinBounds(r)
        /\ Respond(r.status)
        /\ clans' = Written(r)
        /\ UNCHANGED players

decline_membership_request_body(clan, jid, target) ==
    IF ~(\E role \in iter(role_of(clan, jid)) : role >= RoleMember)
    THEN Reject(PermissionDenied)
    ELSE IF ~(\E status \in iter(status_of(clan, target)) : status # StatusPending)
    THEN Reject(MemberStatusInvalid)
    ELSE Accept("save", [clan EXCEPT !.members = retain_not(clan.members, target)])

decline_membership_request(ticket, id, target, db) ==
    \E got \in { resolve(id, db) } :
    \E r \in { IF got.status # SUCCESS
               THEN got
               ELSE saved(decline_membership_request_body(got.clan, JidFrom(ticket),
                                                          target), db) } :
        /\ WithinBounds(r)
        /\ Respond(r.status)
        /\ clans' = Written(r)
        /\ UNCHANGED players

----------------------------------------------------------------------------
(* routes/blacklist.rs *)

record_blacklist_entry_body(clan, jid, target) ==
    IF ~(\E role \in iter(role_of(clan, jid)) : role >= RoleSubLeader)
    THEN Reject(PermissionDenied)
    ELSE IF (\E status \in iter(status_of(clan, jid)) : status = StatusMember)
    THEN Reject(MemberStatusInvalid)
    ELSE Accept("replace_one", [clan EXCEPT !.blacklist = Append(@, target)])

record_blacklist_entry(ticket, id, jid, db) ==
    \E got \in { IF ~jid.valid THEN Reject(InvalidNpId) ELSE resolve(id, db) } :
    \E r \in { IF got.status # SUCCESS
               THEN got
               ELSE saved(record_blacklist_entry_body(got.clan, JidFrom(ticket), jid.jid), db) } :
        /\ WithinBounds(r)
        /\ Respond(r.status)
        /\ clans' = Written(r)
        /\ UNCHANGED players

delete_blacklist_entry_body(clan, jid, target) ==
    IF ~(\E role \in iter(role_of(clan, jid)) : role >= RoleSubLeader)
    THEN Reject(PermissionDenied)
    ELSE IF (\E status \in iter(status_of(clan, target)) : status = StatusMember)
    THEN Reject(MemberStatusInvalid)
    ELSE IF ~is_blacklisted(clan, target)
    THEN Reject(NoSuchBlacklistEntry)
    ELSE Accept("replace_one",
            [clan EXCEPT !.blacklist = SelectSeq(@, LAMBDA j : ~JidEq(j, target))])

delete_blacklist_entry(ticket, id, jid, db) ==
    \E got \in { IF ~jid.valid THEN Reject(InvalidNpId) ELSE resolve(id, db) } :
    \E r \in { IF got.status # SUCCESS
               THEN got
               ELSE saved(delete_blacklist_entry_body(got.clan, JidFrom(ticket), jid.jid), db) } :
        /\ WithinBounds(r)
        /\ Respond(r.status)
        /\ clans' = Written(r)
        /\ UNCHANGED players

----------------------------------------------------------------------------

Init ==
    /\ clans = {}
    /\ players = EmptyBag
    /\ last = SUCCESS

CreateClan ==
    \E ticket \in Tickets, id \in Ids, name \in NameInputs, tag \in TagInputs,
       db \in DbOutcomes :
        create_clan(ticket, id, name, tag, db)

DisbandClan ==
    \E ticket \in Tickets, id \in Ids, db \in DbOutcomes :
        disband_clan(ticket, id, db)

KickMember ==
    \E ticket \in Tickets, id \in Ids, jid \in JidStrings, db \in DbOutcomes :
        kick_member(ticket, id, jid, db)

ChangeMemberRole ==
    \E ticket \in Tickets, id \in Ids, jid \in JidStrings, role \in RoleInputs,
       db \in DbOutcomes :
        change_member_role(ticket, id, jid, role, db)

JoinClan ==
    \E ticket \in Tickets, id \in Ids, db \in DbOutcomes :
        join_clan(ticket, id, db)

LeaveClan ==
    \E ticket \in Tickets, id \in Ids, db \in DbOutcomes :
        leave_clan(ticket, id, db)

SendInvitation ==
    \E ticket \in Tickets, id \in Ids, target \in Jids, db \in DbOutcomes :
        send_invitation(ticket, id, target, db)

CancelInvitation ==
    \E ticket \in Tickets, id \in Ids, target \in Jids, db \in DbOutcomes :
        cancel_invitation(ticket, id, target, db)

AcceptInvitation ==
    \E ticket \in Tickets, id \in Ids, db \in DbOutcomes \cup {"find_err"} :
        accept_invitation(ticket, id, db)

DeclineInvitation ==
    \E ticket \in Tickets, id \in Ids, db \in DbOutcomes :
        decline_invitation(ticket, id, db)

RequestMembership ==
    \E ticket \in Tickets, id \in Ids, db \in DbOutcomes \cup {"find_err"} :
        request_membership(ticket, id, db)

CancelRequestMembership ==
    \E ticket \in Tickets, id \in Ids, db \in DbOutcomes :
        cancel_request_membership(ticket, id, db)

AcceptMembershipRequest ==
    \E ticket \in Tickets, id \in Ids, target \in Jids, db \in DbOutcomes :
        accept_membership_request(ticket, id, target, db)

DeclineMembershipRequest ==
    \E ticket \in Tickets, id \in Ids, target \in Jids, db \in DbOutcomes :
        decline_membership_request(ticket, id, target, db)

RecordBlacklistEntry ==
    \E ticket \in Tickets, id \in Ids, jid \in JidStrings, db \in DbOutcomes :
        record_blacklist_entry(ticket, id, jid, db)

DeleteBlacklistEntry ==
    \E ticket \in Tickets, id \in Ids, jid \in JidStrings, db \in DbOutcomes :
        delete_blacklist_entry(ticket, id, jid, db)

Next ==
    \/ CreateClan
    \/ DisbandClan
    \/ KickMember
    \/ ChangeMemberRole
    \/ JoinClan
    \/ LeaveClan
    \/ SendInvitation
    \/ CancelInvitation
    \/ AcceptInvitation
    \/ DeclineInvitation
    \/ RequestMembership
    \/ CancelRequestMembership
    \/ AcceptMembershipRequest
    \/ DeclineMembershipRequest
    \/ RecordBlacklistEntry
    \/ DeleteBlacklistEntry

Spec == Init /\ [][Next]_vars

----------------------------------------------------------------------------
(* The handlers over a stored document *)

\* The collection is persistent: a handler runs on whatever document
\* Clan::resolve loads.  Docs are documents of the Clan schema with the
\* creator's Leader row, at most one further row, at most one blacklisted
\* JID, and either value of the auto_accept flag.
DocRows ==
    { Player(JidFrom(t), role, status) :
        t \in { u \in Tickets : u.username = "bob" },
        role \in { RoleNonMember, RoleMember, RoleSubLeader },
        status \in { StatusMember, StatusInvited, StatusPending } }

DocBlacklists ==
    { <<>> } \cup { <<JidFrom(t)>> : t \in { u \in Tickets : u.username # "alice" } }

Docs ==
    { [ClanFrom(id, <<1, 1>>, <<1>>, t) EXCEPT
            !.members = @ \o rows, !.blacklist = bl, !.auto_accept = auto] :
        id \in Ids,
        t \in { u \in Tickets : u.username = "alice" },
        rows \in { <<>> } \cup { <<row>> : row \in DocRows },
        bl \in DocBlacklists,
        auto \in BOOLEAN }

InitDoc ==
    /\ clans \in { { doc } : doc \in Docs }
    /\ players = EmptyBag
    /\ last = SUCCESS

\* The handlers that read or write the blacklist or read auto_accept, and
\* leave_clan.
NextDoc ==
    \/ JoinClan
    \/ LeaveClan
    \/ SendInvitation
    \/ AcceptInvitation
    \/ RequestMembership
    \/ AcceptMembershipRequest
    \/ RecordBlacklistEntry
    \/ DeleteBlacklistEntry

SpecDoc == InitDoc /\ [][NextDoc]_vars

----------------------------------------------------------------------------
(* Several clans *)

\* Clan ids when more than one clan is stored.
ClanIds == {1, 2}

\* Creating clans and entering them, over two ids.
NextClans ==
    \/ \E ticket \in Tickets, id \in ClanIds, name \in NameInputs, tag \in TagInputs,
          db \in DbOutcomes :
            create_clan(ticket, id, name, tag, db)
    \/ \E ticket \in Tickets, id \in ClanIds, target \in Jids, db \in DbOutcomes :
            send_invitation(ticket, id, target, db)
    \/ \E ticket \in Tickets, id \in ClanIds, db \in DbOutcomes \cup {"find_err"} :
            accept_invitation(ticket, id, db)
    \/ \E ticket \in Tickets, id \in ClanIds, db \in DbOutcomes \cup {"find_err"} :
            request_membership(ticket, id, db)
    \/ \E ticket \in Tickets, id \in ClanIds, target \in Jids, db \in DbOutcomes :
            accept_membership_request(ticket, id, target, db)

SpecClans == Init /\ [][NextClans]_vars

-----------------------------------------------------------------------------
(* The announcement board *)

\* Jid::default(): three empty strings.
DefaultJid == [username |-> "", domain |-> "", region |-> ""]

\* Announcement ids drawn by the random generator, and the `expire_date`
\* (seconds into the future) of a request.
AnnouncementIds == {1, 2}
ExpireInputs == {0, 1}
Times == 0..MaxTime

\* Announcement::from(PostAnnouncement): `date_expire` reads the clock first,
\* then Default::default() draws the id and reads the clock again for
\* `date_created`; the author stays Jid::default().
AnnouncementFrom(aid, expire_date, now, later) ==
    [id |-> aid,
     author |-> DefaultJid,
     date_created |-> later,
     date_expire |-> now + expire_date]

\* The latest clock reading stored on any board.
Latest ==
    LET stamps == UNION { { c.announcements[i].date_created : i \in 1..Len(c.announcements) } : c \in clans } IN
    IF stamps = {} THEN 0 ELSE CHOOSE t \in stamps : \A u \in stamps : u <= t

\* announcements.iter().position(|a| a.id() == msg_id)
position_of(announcements, msg_id) ==
    IF \E i \in 1..Len(announcements) : announcements[i].id = msg_id
    THEN CHOOSE i \in 1..Len(announcements) :
            /\ announcements[i].id = msg_id
            /\ \A j \in 1..(i - 1) : announcements[j].id # msg_id
    ELSE 0

post_announcement_body(clan, jid, announcement) ==
    IF ~(\E status \in iter(status_of(clan, jid)) : status = StatusMember)
    THEN Reject(PermissionDenied)
    ELSE Accept("save", [clan EXCEPT !.announcements = Append(@, announcement)])

post_announcement(ticket, id, announcement, db) ==
    \E got \in { resolve(id, db) } :
    \E r \in { IF got.status # SUCCESS
               THEN got
               ELSE saved(post_announcement_body(got.clan, JidFrom(ticket), announcement), db) } :
        /\ WithinBounds(r)
        /\ Respond(r.status)
        /\ clans' = Written(r)
        /\ UNCHANGED players

delete_announcement_body(clan, jid, msg_id) ==
    LET index == position_of(clan.announcements, msg_id) IN
    IF ~(\E status \in iter(status_of(clan, jid)) : status = StatusMember)
    THEN Reject(PermissionDenied)
    ELSE IF index = 0
    THEN Reject(NoSuchClanAnnouncement)
    ELSE IF /\ ~JidEq(clan.announcements[index].author, jid)
            /\ ~(\E role \in iter(role_of(clan, jid)) : role >= RoleSubLeader)
    THEN Reject(PermissionDenied)
    ELSE Accept("save",
            [clan EXCEPT !.announcements =
                SubSeq(@, 1, index - 1) \o SubSeq(@, index + 1, Len(@))])

delete_announcement(ticket, id, msg_id, db) ==
    \E got \in { resolve(id, db) } :
    \E r \in { IF got.status # SUCCESS
               THEN got
               ELSE saved(delete_announcement_body(got.clan, JidFrom(ticket), msg_id), db) } :
        /\ WithinBounds(r)
        /\ Respond(r.status)
        /\ clans' = Written(r)
        /\ UNCHANGED players

PostAnnouncement ==
    \E now \in { t \in Times : Latest <= t } :
    \E later \in { t \in Times : now <= t } :
    \E ticket \in Tickets, id \in Ids, aid \in AnnouncementIds,
       expire_date \in ExpireInputs, db \in DbOutcomes :
        post_announcement(ticket, id, AnnouncementFrom(aid, expire_date, now, later), db)

DeleteAnnouncement ==
    \E ticket \in Tickets, id \in Ids, msg_id \in AnnouncementIds, db \in DbOutcomes :
        delete_announcement(ticket, id, msg_id, db)

\* Clans with a board: founded, joined through a membership request,
\* posted to and deleted from.
NextBoard ==
    \/ CreateClan
    \/ RequestMembership
    \/ AcceptMembershipRequest
    \/ PostAnnouncement
    \/ DeleteAnnouncement

SpecBoard == Init /\ [][NextBoard]_vars

-----------------------------------------------------------------------------
(* List operations *)

\* The range of the `start: i32` and `max: i32` fields.
MinI32 == -2147483647 - 1
MaxI32 == 2147483647

StartInputs == {MinI32, 0, 1, 2, 3}
MaxInputs == {-1, 0, 1, 2}

\* A response carrying a list; an error response carries no payload and is
\* written with the same fields, all empty.
ListOf(items, total) ==
    [status |-> SUCCESS, results |-> Len(items), total |-> total, items |-> items]
ErrorOf(status) ==
    [status |-> status, results |-> 0, total |-> 0, items |-> <<>>]

\* `(start - 1).max(0) as usize`: for start = i32::MIN the subtraction
\* overflows, which panics in a build with overflow checks and wraps to
\* i32::MAX in one without.
skips(start) ==
    IF start = MinI32
    THEN {Panicked, MaxI32}
    ELSE {IF start - 1 > 0 THEN start - 1 ELSE 0}

\* iter().skip(skip).take(max as usize): a negative `max` casts to a count
\* larger than any list.
window(s, skip, max) ==
    LET rest == IF skip >= Len(s) THEN <<>> ELSE SubSeq(s, skip + 1, Len(s)) IN
    IF max < 0 THEN rest ELSE Take(rest, max)

\* impl From<Player> for PlayerBasicInfo
PlayerBasicInfoFrom(player) ==
    [jid |-> JidString(player.jid), role |-> player.role, status |-> player.status]

\* impl From<Jid> for BlacklistEntry
BlacklistEntryFrom(jid) == [jid |-> JidString(jid)]

\* impl From<Announcement> for AnnouncementInfo
AnnouncementInfoFrom(announcement) ==
    [id |-> announcement.id,
     jid |-> JidString(announcement.author),
     msg_date |-> announcement.date_created]

\* impl From<(Clan, Jid)> for ClanPlayerInfo
ClanPlayerInfoFrom(clan, player) ==
    [id |-> clan.id,
     name |-> clan.name,
     tag |-> clan.tag,
     role |-> IF role_of(clan, player) = None THEN RoleNonMember ELSE role_of(clan, player)[1],
     status |-> IF status_of(clan, player) = None THEN StatusUnknown ELSE status_of(clan, player)[1],
     online_name |-> player.username,
     members |-> Len(clan.members),
     platform |-> clan.platform]

\* `if c.status == Member && c.platform != platform { role = NonMember; status = Unknown }`
masked(c, platform) ==
    IF c.status = StatusMember /\ c.platform # platform
    THEN [c EXCEPT !.role = RoleNonMember, !.status = StatusUnknown]
    ELSE c

\* find({ "members.jid": jid.to_string() }) read to its end; the model takes
\* the cursor in ascending id.
find_clans(jid) ==
    LET found == { c \in clans :
                    \E i \in 1..Len(c.members) : JidString(c.members[i].jid) = JidString(jid) } IN
    CHOOSE data \in [1..Cardinality(found) -> found] :
        \A i, j \in 1..Cardinality(found) : i < j => data[i].id < data[j].id

get_member_list(id, start, max, db) ==
    \E got \in { resolve(id, db) } :
    \E skip \in skips(start) :
        /\ last' = IF got.status # SUCCESS THEN ErrorOf(got.status)
                   ELSE IF skip = Panicked THEN ErrorOf(Panicked)
                   ELSE LET shown == window(got.clan.members, skip, max) IN
                        ListOf([i \in 1..Len(shown) |-> PlayerBasicInfoFrom(shown[i])],
                               Len(got.clan.members))
        /\ UNCHANGED <<clans, players>>

get_blacklist(id, start, max, db) ==
    \E got \in { resolve(id, db) } :
    \E skip \in skips(start) :
        /\ last' = IF got.status # SUCCESS THEN ErrorOf(got.status)
                   ELSE IF skip = Panicked THEN ErrorOf(Panicked)
                   ELSE LET shown == window(got.clan.blacklist, skip, max) IN
                        ListOf([i \in 1..Len(shown) |-> BlacklistEntryFrom(shown[i])],
                               Len(got.clan.blacklist))
        /\ UNCHANGED <<clans, players>>

retrieve_announcements(ticket, id, start, max, db) ==
    \E got \in { resolve(id, db) } :
    \E skip \in skips(start) :
        /\ last' = IF got.status # SUCCESS THEN ErrorOf(got.status)
                   ELSE IF ~(\E status \in iter(status_of(got.clan, JidFrom(ticket))) :
                                status = StatusMember)
                   THEN ErrorOf(PermissionDenied)
                   ELSE IF skip = Panicked THEN ErrorOf(Panicked)
                   ELSE LET shown == window(got.clan.announcements, skip, max) IN
                        ListOf([i \in 1..Len(shown) |-> AnnouncementInfoFrom(shown[i])],
                               Len(got.clan.announcements))
        /\ UNCHANGED <<clans, players>>

\* The caller's triple is looked up in `players` and inserted when absent (a
\* failed insert is logged and the request goes on); then the clans are read.
get_clan_list(ticket, start, max, db, insert) ==
    \E skip \in skips(start) :
    \E jid \in { JidFrom(ticket) } :
        /\ players' = IF db # "read_err" /\ ~BagIn(jid, players) /\ insert = "ok"
                      THEN players (+) SetToBag({jid})
                      ELSE players
        /\ last' = IF db \in {"read_err", "find_err"} THEN ErrorOf(InternalServerError)
                   ELSE IF skip = Panicked THEN ErrorOf(Panicked)
                   ELSE LET shown == window(find_clans(jid), skip, max) IN
                        ListOf([i \in 1..Len(shown) |->
                                    masked(ClanPlayerInfoFrom(shown[i], jid), PlatformFrom(ticket))],
                               Len(find_clans(jid)))
        /\ UNCHANGED clans

GetMemberList ==
    \E id \in ClanIds, start \in StartInputs, max \in MaxInputs, db \in {"ok", "read_err"} :
        get_member_list(id, start, max, db)

GetBlacklist ==
    \E id \in ClanIds, start \in StartInputs, max \in MaxInputs, db \in {"ok", "read_err"} :
        get_blacklist(id, start, max, db)

RetrieveAnnouncements ==
    \E ticket \in Tickets, id \in ClanIds, start \in StartInputs, max \in MaxInputs,
       db \in {"ok", "read_err"} :
        retrieve_announcements(ticket, id, start, max, db)

GetClanList ==
    \E ticket \in Tickets, start \in StartInputs, max \in MaxInputs,
       db \in {"ok", "read_err", "find_err"}, insert \in {"ok", "write_err"} :
        get_clan_list(ticket, start, max, db, insert)

\* Boards left by up to two posts, the second not before the first.
Boards ==
    LET posted(aid) == { AnnouncementFrom(aid, expire_date, now, now) :
                            expire_date \in ExpireInputs, now \in Times } IN
    {<<>>} \cup { <<a>> : a \in posted(1) }
           \cup { pair \in posted(1) \X posted(2) :
                    pair[1].date_created <= pair[2].date_created }

\* The stores the list operations are read from: alice's Console clan, empty
\* or with two more rows or two blacklist entries or an invitation sent to
\* bob under another domain and region, with any board; and carol's Emulator
\* clan, to which bob is invited.
ListStores ==
    LET alice == CHOOSE t \in Tickets : t.username = "alice"
        bob == JidFrom(CHOOSE t \in Tickets : t.username = "bob")
        carol == CHOOSE t \in Tickets : t.username = "carol"
        second == [ClanFrom(2, <<2, 2>>, <<2>>, carol) EXCEPT
                    !.members = Append(@, Player(bob, RoleNonMember, StatusInvited))] IN
    { { [ClanFrom(1, <<1, 1>>, <<1>>, alice) EXCEPT
            !.members = @ \o filled[1], !.blacklist = filled[2], !.announcements = board],
        second } :
        filled \in { << <<Player(bob, RoleMember, StatusMember),
                          Player(JidFrom(carol), RoleNonMember, StatusInvited)>>, <<>> >>,
                     << <<>>, <<bob, JidFrom(carol)>> >>,
                     << <<Player([bob EXCEPT !.domain = "un", !.region = "br"],
                                 RoleNonMember, StatusInvited)>>, <<>> >> },
        board \in Boards }

InitList ==
    /\ clans \in ListStores
    /\ players = EmptyBag
    /\ last = ErrorOf(SUCCESS)

NextList ==
    \/ GetMemberList
    \/ GetBlacklist
    \/ RetrieveAnnouncements
    \/ GetClanList

SpecList == InitList /\ [][NextList]_vars

-----------------------------------------------------------------------------
(* Tickets *)

\* A timestamp field is TsBytes bytes long and a byte takes ByteBase values
\* (8 and 256 in the code); the leeway and the horizon of the date rules
\* (300 * 1000 and 31_536_000 * 1000 in the code) are scaled to that width.
TsBytes == 2
ByteBase == 2
Leeway == 1
Year == 2

\* Readings of the system clock, in the unit of the timestamps.
Nows == {0, 1}

\* Buffer lengths, version words and signature ids of a ticket buffer.
Lengths == {0, 1, 211, 212, 401}
V2 == 8448
V2_1 == 8449
V3 == 12544
V4 == 16640
VersionWords == {V2, V2_1, V3, V4, 0}
SignatureIds == {"RPCN", "PSN"}

TimestampFields == [1..TsBytes -> 0..(ByteBase - 1)]

\* What lies in the signed range of a buffer: the two timestamp fields and
\* the rest of the user data.
Contents == [body : {"a", "b"}, issued : TimestampFields, expires : TimestampFields]

\* A ticket buffer: its length, version word and signature id, the signed
\* range, and the signature bytes, which either are no signature at all or
\* verify against exactly one reading of the signed range.
Buffers ==
    [len : Lengths, version : VersionWords, id : SignatureIds,
     signed : Contents, signature : Contents \cup {[body |-> "malformed"]}]

\* What the environment holds under keys/{name}.pem.
KeyFiles == {"ok", "unreadable", "invalid"}

RECURSIVE from_be_bytes(_)
\* u64::from_be_bytes
from_be_bytes(field) ==
    IF field = <<>> THEN 0
    ELSE from_be_bytes(SubSeq(field, 1, Len(field) - 1)) * ByteBase + field[Len(field)]

\* slice::reverse
reverse(field) == [i \in 1..Len(field) |-> field[Len(field) + 1 - i]]

\* Ticket::validate_dates with the clock reading `now`: "ok" or the error.
validate_dates(issued_at, expires_at, now) ==
    IF issued_at = 0 \/ expires_at = 0
    THEN "Invalid issued or expiration date"
    ELSE IF expires_at <= issued_at
    THEN "Expiration date is before issued date"
    ELSE IF issued_at > now + Leeway
    THEN "Issued date is in the future"
    ELSE IF expires_at > now + Year
    THEN "Issued or expiration date is too far in the future"
    ELSE "ok"

\* A closure that reads the timestamps big-endian only and never reverses
\* them: C25 does not hold of a decoder built on it.
parse_big_endian(bytes, now, later) ==
    [error |-> validate_dates(from_be_bytes(bytes.signed.issued),
                              from_be_bytes(bytes.signed.expires), now),
     bytes |-> bytes,
     issued_at |-> from_be_bytes(bytes.signed.issued),
     expires_at |-> from_be_bytes(bytes.signed.expires)]

\* The parse_timestamps closure: the buffer as it leaves the closure, and
\* the timestamps or the error.  Each validation reads the clock.
parse_timestamps(bytes, now, later) ==
    IF validate_dates(from_be_bytes(bytes.signed.issued),
                      from_be_bytes(bytes.signed.expires), now) = "ok"
    THEN [error |-> "ok", bytes |-> bytes,
          issued_at |-> from_be_bytes(bytes.signed.issued),
          expires_at |-> from_be_bytes(bytes.signed.expires)]
    ELSE LET swapped == [bytes EXCEPT !.signed.issued = reverse(@),
                                      !.signed.expires = reverse(@)] IN
         [error |-> validate_dates(from_be_bytes(swapped.signed.issued),
                                   from_be_bytes(swapped.signed.expires), later),
          bytes |-> swapped,
          issued_at |-> from_be_bytes(swapped.signed.issued),
          expires_at |-> from_be_bytes(swapped.signed.expires)]

\* Signature::from_bytes: `RPCN` is the emulator, every other id the console.
SignatureFrom(id) == IF id = "RPCN" THEN Emulator ELSE Console

\* The outcomes of Ticket::from_bytes.
Ok(ticket, bytes) == [kind |-> "Ok", ticket |-> ticket, bytes |-> bytes]
Err(error, bytes) == [kind |-> "Err", error |-> error, bytes |-> bytes]
Panic(bytes) == [kind |-> "Panic", bytes |-> bytes]

\* Ticket::from_bytes(&mut bytes), with the key file found and the clock
\* readings of the two date validations.
from_bytes(bytes, key, now, later) ==
    LET dates == parse_timestamps(bytes, now, later)
        signature == SignatureFrom(bytes.id) IN
    IF bytes.len = 0 THEN Err("Empty buffer", bytes)
    ELSE IF bytes.len < 2 THEN Panic(bytes)
    ELSE IF bytes.version \notin {V2, V2_1, V3, V4} THEN Err("Unsupported version", bytes)
    ELSE IF bytes.len < 212 \/ bytes.len > 400 THEN Err("Invalid buffer length", bytes)
    ELSE IF dates.error # "ok" THEN Err(dates.error, dates.bytes)
    ELSE IF bytes.version = V4 /\ signature = Emulator THEN Panic(dates.bytes)
    ELSE IF key = "unreadable" THEN Err("Failed to read public key", dates.bytes)
    ELSE IF key = "invalid" THEN Err("Failed to load public key", dates.bytes)
    ELSE IF signature = Emulator /\ bytes.signature.body = "malformed"
    THEN Err("Failed to verify signature!", dates.bytes)
    ELSE IF signature = Emulator /\ bytes.signature # dates.bytes.signed
    THEN Err("Invalid signature", dates.bytes)
    ELSE Ok([issued_at |-> dates.issued_at,
             expires_at |-> dates.expires_at,
             signature |-> signature,
             body |-> bytes.signed.body],
            dates.bytes)

-----------------------------------------------------------------------------
(* Requests and responses on the wire *)

\* The status bytes of the error table.
ErrorCodes ==
    {1, 2, 3, 4, 5, 6, 7, 10, 17, 29} \cup (47..70) \cup {75, 76}
InvalidTicket == 2
InvalidSignature == 3

\* impl Into<StatusCode> for ErrorCode
http_of(code) ==
    CASE code \in {1, 5, 57, 60, 75} -> 400
      [] code \in {2, 3, 4} -> 401
      [] code \in {7, 29, 76} -> 500
      [] code \in {47, 48, 49, 62, 67, 70} -> 404
      [] code \in {58, 63} -> 409
      [] OTHER -> 403

\* What a handler returns: Response::success(content), Response::error(code).
Responses ==
    [status : {SUCCESS}, content : {"Empty", "Item", "List"}]
        \cup [status : ErrorCodes, content : {"Empty"}]

\* The characters of the digits.
Digits == <<"0", "1", "2", "3", "4", "5", "6", "7", "8", "9", "A", "B", "C", "D", "E", "F">>

\* impl Display for Status: `write!(f, "{:02}", code as u8)`, the decimal
\* digits of the byte, padded with zeros to two characters.
StatusToString(code) ==
    IF code < 100
    THEN <<Digits[(code \div 10) + 1], Digits[(code % 10) + 1]>>
    ELSE <<Digits[(code \div 100) + 1], Digits[((code \div 10) % 10) + 1], Digits[(code % 10) + 1]>>

\* What goes out: the `<clan result="..">` envelope around the content, or
\* the plain error response the framework writes for a failed extractor.
Envelope(response) ==
    [envelope |-> TRUE,
     http |-> IF response.status = SUCCESS THEN 200 ELSE http_of(response.status),
     result |-> StatusToString(response.status),
     payload |-> response.content]
ErrorInternalServerError ==
    [envelope |-> FALSE, http |-> 500, result |-> <<>>, payload |-> "Empty"]
Nothing == [envelope |-> FALSE, http |-> 0, result |-> <<>>, payload |-> "Empty"]

\* A request to a game endpoint: a body that is XML or not, whose ticket
\* element is base64 or not and then decodes to a buffer.
Requests ==
    { [xml |-> TRUE, base64 |-> TRUE, bytes |-> bytes] : bytes \in Buffers }
        \cup { [xml |-> xml, base64 |-> base64, bytes |-> CHOOSE bytes \in Buffers : TRUE] :
                xml \in BOOLEAN, base64 \in BOOLEAN }

NotDecoded == [kind |-> "None"]
NotRead == [now |-> 0, later |-> 0]
NoResponse == [status |-> SUCCESS, content |-> "None"]

\* Request<T>::from_request: the body is parsed, which decodes the ticket;
\* any error becomes ErrorInternalServerError, which the framework answers
\* itself; a panic ends the request without an answer.  `clock` keeps the
\* two readings of the system clock the date validations made.
from_request(key, now, later) ==
    /\ last.stage = "received"
    /\ \E decoded \in { IF last.sent.xml /\ last.sent.base64
                        THEN from_bytes(last.sent.bytes, key, now, later)
                        ELSE NotDecoded } :
        last' = [last EXCEPT
                    !.decoded = decoded,
                    !.clock = [now |-> now, later |-> later],
                    !.stage = CASE decoded.kind = "Ok" -> "extracted"
                                [] decoded.kind = "Panic" -> "aborted"
                                [] OTHER -> "answered",
                    !.wire = IF decoded.kind \in {"Ok", "Panic"}
                             THEN Nothing
                             ELSE ErrorInternalServerError]
    /\ UNCHANGED <<clans, players>>

\* Responder::respond_to on what the handler returned.
respond_to(response) ==
    /\ last.stage = "extracted"
    /\ last' = [last EXCEPT !.stage = "answered",
                            !.response = response,
                            !.wire = Envelope(response)]
    /\ UNCHANGED <<clans, players>>

FromRequest ==
    \E key \in KeyFiles, now \in Nows :
    \E later \in { t \in Nows : now <= t } :
        from_request(key, now, later)

RespondTo ==
    \E response \in Responses :
        respond_to(response)

InitWire ==
    /\ clans = {}
    /\ players = EmptyBag
    /\ last \in [stage : {"received"}, sent : Requests, decoded : {NotDecoded},
                 clock : {NotRead}, response : {NoResponse}, wire : {Nothing}]

NextWire == FromRequest \/ RespondTo

SpecWire == InitWire /\ [][NextWire]_vars

-----------------------------------------------------------------------------
(* The admin service *)

NoSuchClanService == 47

\* Request paths, as the pieces str::starts_with tells apart.
Paths ==
    { <<"/admin", "/clan/create">>, <<"/admin">>, <<"/admin", "istrator">>,
      <<"/adm">>, <<"/clan_manager_update/sec/create_clan">> }
Methods == {"PUT", "POST"}

\* str::starts_with on a path
starts_with(path, prefix) == path # <<>> /\ Head(path) = prefix

\* The X-Admin-Token header of a request: absent, or a value that is visible
\* ASCII or not; and the ADMIN_TOKEN variable of the environment, unset or set.
Headers ==
    {None} \cup { Some([visible |-> visible, value |-> value]) :
                    visible \in BOOLEAN, value \in {"t1", "t2"} }
EnvTokens == {None, Some("t1")}

\* What the middleware does with a request: call the next service, or
\* answer with an error.
Next_call == [next |-> TRUE, http |-> 200]
ErrorOfHttp(http) == [next |-> FALSE, http |-> http]

\* A middleware that asks for the header and never compares it: C28 does not
\* hold of a server wrapped in it.
admin_header_only(path, header, env_token) ==
    IF ~starts_with(path, "/admin") THEN Next_call
    ELSE IF header = None THEN ErrorOfHttp(401)
    ELSE IF env_token = None THEN ErrorOfHttp(500)
    ELSE Next_call

\* utils::auth::admin
admin(path, header, env_token) ==
    IF ~starts_with(path, "/admin") THEN Next_call
    ELSE IF header = None THEN ErrorOfHttp(401)
    ELSE IF env_token = None THEN ErrorOfHttp(500)
    ELSE IF ~header[1].visible THEN ErrorOfHttp(400)
    ELSE IF header[1].value # env_token[1] THEN ErrorOfHttp(401)
    ELSE Next_call

\* The services of the App: the handler a request is routed to.
route(method, path) ==
    IF method = "PUT" /\ path = <<"/admin", "/clan/create">>
    THEN "admin::create_clan"
    ELSE IF method = "POST" /\ path = <<"/clan_manager_update/sec/create_clan">>
    THEN "clans::create_clan"
    ELSE "default_service"

\* The bodies of the requests: the JSON of requests::admin::CreateClan, or
\* the ticket of a game request.
AdminBodies ==
    [username : {"alice", "carol", "dave"}, clan_name : {<<1, 1, 1>>},
     clan_tag : {<<1>>}, clan_platform : {Console, Emulator}]
GameBodies == [ticket : Tickets, name : {<<2, 2, 2>>}, tag : {<<1>>}]

\* The documents of `players` the filter of the admin route selects.
find_players(username, platform) ==
    { p \in BagToSet(players) :
        /\ p.username = username
        /\ IF platform = Console
           THEN p.domain # "un" /\ p.region # "br"
           ELSE p.domain = "un" /\ p.region = "br" }

\* Clan::from((data, author))
AdminClanFrom(id, data, author) ==
    [id |-> id,
     name |-> Take(data.clan_name, MAX_CLAN_NAME_LENGTH),
     tag |-> Take(data.clan_tag, MAX_CLAN_TAG_LENGTH),
     members |-> <<Player(author, RoleLeader, StatusMember)>>,
     blacklist |-> <<>>,
     announcements |-> <<>>,
     auto_accept |-> FALSE,
     platform |-> data.clan_platform]

\* routes::admin::create_clan with the player document found
admin_create_clan_body(data, id, author) ==
    LET clan == AdminClanFrom(id, data, author)
        mine == clans_of(author)
        clans_owned_len ==
            Cardinality({ c \in mine :
                (\E o \in iter(owner(c)) : JidEq(o.jid, author)) })
        clans_member_len ==
            Cardinality({ c \in mine : status_of(c, author) = Some(StatusMember) })
    IN  IF clans_member_len >= MAX_CLAN_MEMBERSHIP
        THEN Reject(ClanJoinedLimitReached)
        ELSE IF clans_owned_len >= MAX_CLAN_OWNERSHIP
        THEN Reject(ClanLeaderLimitReached)
        ELSE Accept("save", clan)

\* routes::admin::create_clan: the outcomes, one for each document find_one
\* may return.
admin_create_clan(data, id, db) ==
    IF \/ ByteLen(Take(data.clan_name, MAX_CLAN_NAME_LENGTH)) > MAX_CLAN_NAME_LENGTH
       \/ ByteLen(Take(data.clan_tag, MAX_CLAN_TAG_LENGTH)) > MAX_CLAN_TAG_LENGTH
    THEN {Reject(PermissionDenied)}
    ELSE IF db = "read_err"
    THEN {Reject(InternalServerError)}
    ELSE IF find_players(data.username, data.clan_platform) = {}
    THEN {Reject(InvalidNpId)}
    ELSE { saved(admin_create_clan_body(data, id, author), db) :
            author \in find_players(data.username, data.clan_platform) }

\* routes::clans::create_clan, as in create_clan above
game_create_clan(body, id, db) ==
    LET r == create_clan_body(body.ticket, id, body.name, body.tag) IN
    IF r.status # PermissionDenied /\ db = "read_err"
    THEN {Reject(InternalServerError)}
    ELSE {saved(r, db)}

NoRequest ==
    [method |-> "none", path |-> <<>>, header |-> None, env_token |-> None,
     handler |-> "none", http |-> 0, status |-> SUCCESS, saved |-> FALSE]

\* One request through the App: the middleware, then the service the path
\* routes to.  `last` keeps the request and what came of it: the status the
\* handler answers with, or the HTTP error of the middleware.  A body that
\* is not the one the routed handler extracts gives no request of the model.
request(method, path, header, env_token, body, id, db) ==
    \E auth \in { admin(path, header, env_token) } :
    \E handler \in { IF auth.next THEN route(method, path) ELSE "none" } :
    \E r \in CASE handler = "admin::create_clan" /\ body \in AdminBodies ->
                    admin_create_clan(body, id, db)
               [] handler = "clans::create_clan" /\ body \in GameBodies ->
                    game_create_clan(body, id, db)
               [] handler = "default_service" -> {Reject(NoSuchClanService)}
               [] handler = "none" -> {Reject(auth.http)}
               [] OTHER -> {} :
        /\ WithinBounds(r)
        /\ clans' = Written(r)
        /\ last' = [method |-> method, path |-> path, header |-> header,
                    env_token |-> env_token, handler |-> handler,
                    http |-> auth.http, status |-> r.status,
                    saved |-> r.write # "none"]
        /\ UNCHANGED players

AdminRequest ==
    \E method \in Methods, path \in Paths, header \in Headers, env_token \in EnvTokens,
       body \in AdminBodies \cup GameBodies, id \in Ids, db \in DbOutcomes :
        request(method, path, header, env_token, body, id, db)

\* The players collection as get_clan_list leaves it when these callers have
\* listed their clans.
InitAdmin ==
    /\ clans = {}
    /\ players \in { SetToBag({ JidFrom(t) : t \in callers }) :
                        callers \in { {}, { t \in Tickets : t.username # "bob" }, Tickets } }
    /\ last = NoRequest

NextAdmin == AdminRequest

SpecAdmin == InitAdmin /\ [][NextAdmin]_vars

-----------------------------------------------------------------------------
(* Three clans of one platform *)

\* Three Console players and three clan ids, enough for a player to be in
\* more clans than MAX_CLAN_MEMBERSHIP.
CapTickets ==
    { [username |-> name, domain |-> "a1", region |-> "us", platform |-> Console] :
        name \in {"alice", "bob", "dave"} }
CapIds == {1, 2, 3}

\* Founding clans, asking to enter them and being let in.
NextCap ==
    \/ \E ticket \in CapTickets, id \in CapIds :
            create_clan(ticket, id, <<1, 1>>, <<1>>, "ok")
    \/ \E ticket \in CapTickets, id \in CapIds :
            request_membership(ticket, id, "ok")
    \/ \E ticket \in CapTickets, id \in CapIds, target \in CapTickets :
            accept_membership_request(ticket, id, JidFrom(target), "ok")

SpecCap == Init /\ [][NextCap]_vars

\* Two clans whose members can be promoted: founding, asking to enter, being
\* let in, and change_member_role.
NextLead ==
    \/ \E ticket \in Tickets, id \in ClanIds :
            create_clan(ticket, id, <<1, 1>>, <<1>>, "ok")
    \/ \E ticket \in Tickets, id \in ClanIds :
            request_membership(ticket, id, "ok")
    \/ \E ticket \in Tickets, id \in ClanIds, target \in Jids :
            accept_membership_request(ticket, id, target, "ok")
    \/ \E ticket \in Tickets, id \in ClanIds, target \in Jids,
          role \in {RoleSubLeader, RoleLeader} :
            change_member_role(ticket, id, [valid |-> TRUE, jid |-> target], role, "ok")

SpecLead == Init /\ [][NextLead]_vars

-----------------------------------------------------------------------------
(* Handlers in flight *)

\* Handlers are async: each one awaits its read (Clan::resolve, or the
\* find_one on `players`), decides on what it read, and awaits its one store
\* call. Other handlers run between the two awaits. In this section `last`
\* holds the handlers in flight with what each one read, the handlers that
\* returned, the ids disband_clan has returned success for, and the number of
\* requests that have arrived.

MAX_CLAN_DESCRIPTION_LENGTH == 1
MaxFlights == 2
MaxCalls == 3

FlightId == 1
Descriptions == {<<1>>, <<2, 2>>}
FlightTickets == { t \in Tickets : t.platform = Console }
FlightTargets == { JidFrom(t) : t \in { t \in Tickets : t.username # "alice" } }

\* update_clan_info, after the clan was resolved.
update_clan_info_body(clan, jid, description) ==
    IF ~(status_of(clan, jid) = Some(StatusMember))
    THEN Reject(PermissionDenied)
    ELSE Accept("save",
            [clan EXCEPT !.description = Take(description, MAX_CLAN_DESCRIPTION_LENGTH)])

\* A clan document with its description field.
Described(clan, description) ==
    [f \in DOMAIN clan \cup {"description"} |->
        IF f = "description" THEN description ELSE clan[f]]

\* The requests that arrive: the operation, the ticket and the body.
Call(op, ticket, target, description) ==
    [op |-> op, ticket |-> ticket, target |-> target, description |-> description]

Calls ==
    UNION { { Call("update_clan_info", ticket, JidFrom(ticket), description) :
                description \in Descriptions }
            \cup { Call("send_invitation", ticket, target, <<>>) : target \in FlightTargets }
            \cup { Call("disband_clan", ticket, JidFrom(ticket), <<>>),
                   Call("get_clan_list", ticket, JidFrom(ticket), <<>>) } :
            ticket \in FlightTickets }

\* The handler up to its first await: what it read.
read(call) ==
    [call |-> call,
     got |-> IF call.op = "get_clan_list" THEN Reject(SUCCESS) ELSE resolve(FlightId, "ok"),
     player |-> call.op = "get_clan_list" /\ BagIn(JidFrom(call.ticket), players)]

\* What the handler decides on what it read.
decide(flight) ==
    LET call == flight.call
        jid == JidFrom(call.ticket) IN
    IF flight.got.status # SUCCESS \/ call.op = "get_clan_list"
    THEN flight.got
    ELSE CASE call.op = "update_clan_info" ->
                update_clan_info_body(flight.got.clan, jid, call.description)
           [] call.op = "send_invitation" ->
                send_invitation_body(flight.got.clan, jid, call.target)
           [] call.op = "disband_clan" ->
                disband_clan_body(flight.got.clan, jid)

\* The players collection after the handler's insert_one (get_clan_list, when
\* the triple was not found).
Inserted(flight) ==
    IF flight.call.op = "get_clan_list" /\ ~flight.player
    THEN players (+) SetToBag({JidFrom(flight.call.ticket)})
    ELSE players

without(flights, k) == SubSeq(flights, 1, k - 1) \o SubSeq(flights, k + 1, Len(flights))

returned(flight, status) == [call |-> flight.call, got |-> flight.got, status |-> status]

\* A request arrives and its handler runs to its read.
begin(call) ==
    /\ Len(last.flights) < MaxFlights
    /\ last.calls < MaxCalls
    /\ last' = [last EXCEPT !.flights = Append(@, read(call)), !.calls = @ + 1]
    /\ UNCHANGED <<clans, players>>

\* The handler in flight at k runs from its read to its response: the guards,
\* then the one store call.
finish(k) ==
    \E flight \in { last.flights[k] } :
    \E r \in { decide(flight) } :
        /\ r.write # "none" => WithinBounds(r)
        /\ clans' = Written(r)
        /\ players' = Inserted(flight)
        /\ last' = [last EXCEPT
                        !.flights = without(@, k),
                        !.done = Append(@, returned(flight, r.status)),
                        !.disbanded = IF r.status = SUCCESS /\ r.write = "delete"
                                      THEN @ \cup {r.clan.id}
                                      ELSE @]

\* The client goes away and the handler's future is dropped at an await:
\* before its store call, or during it (the store completes the call or never
\* receives it). No response is sent.
cancel(k, sent) ==
    \E flight \in { last.flights[k] } :
    \E r \in { decide(flight) } :
        /\ r.write # "none" => WithinBounds(r)
        /\ clans' = IF sent THEN Written(r) ELSE clans
        /\ players' = IF sent THEN Inserted(flight) ELSE players
        /\ last' = [last EXCEPT !.flights = without(@, k)]

Begin == \E call \in Calls : begin(call)

Finish == \E k \in 1..Len(last.flights) : finish(k)

Cancel == \E k \in 1..Len(last.flights), sent \in BOOLEAN : cancel(k, sent)

\* alice's Console clan with bob a full member, and an empty players
\* collection.
InitFlight ==
    /\ clans = { Described([ClanFrom(FlightId, <<1, 1>>, <<1>>,
                                     CHOOSE t \in Tickets : t.username = "alice") EXCEPT
                                !.members = Append(@,
                                    Player(JidFrom(CHOOSE t \in Tickets : t.username = "bob"),
                                           RoleMember, StatusMember))],
                           <<>>) }
    /\ players = EmptyBag
    /\ last = [flights |-> <<>>, done |-> <<>>, disbanded |-> {}, calls |-> 0]

NextFlight ==
    \/ Begin
    \/ Finish
    \/ Cancel

SpecFlight == InitFlight /\ [][NextFlight]_vars

----------------------------------------------------------------------------
(* Vocabulary of the claims *)

\* The stored clan with this id (when there is one).
clan_at(id) == CHOOSE c \in find_one(id) : TRUE

\* The stored clan with this id after the step.
clan_after(id) == CHOOSE c \in clans' : c.id = id

Leaders(clan) == { i \in 1..Len(clan.members) : clan.members[i].role = RoleLeader }

Rows(clan, jid) == { i \in 1..Len(clan.members) : JidEq(clan.members[i].jid, jid) }

HasRole(clan, jid, role) == \E i \in Rows(clan, jid) : clan.members[i].role = role

HasStatus(clan, jid, status) == \E i \in Rows(clan, jid) : clan.members[i].status = status

RoleAtLeast(clan, jid, role) == \E i \in Rows(clan, jid) : clan.members[i].role >= role

----------------------------------------------------------------------------
(* C1 *)

\* C1: every persisted clan has exactly one member whose role is Leader.
C1_ExactlyOneLeader == \A c \in clans : Cardinality(Leaders(c)) = 1

(* C2 *)

\* C2: no persisted clan's member list holds two rows with equal JIDs.
C2_NoDuplicateJid ==
    \A c \in clans : \A i, k \in 1..Len(c.members) :
        i # k => ~JidEq(c.members[i].jid, c.members[k].jid)

(* C3 *)

\* C3: decline_membership_request succeeds only when the caller's role is at
\* least Member and the target is Pending, and then removes exactly the
\* target's row; for a target that is a full Member, is Invited or has no row
\* it answers an error and the member list is unchanged.
C3_DeclineOnlyPending ==
    [][\A ticket \in Tickets, id \in Ids, target \in Jids, db \in DbOutcomes :
        (decline_membership_request(ticket, id, target, db) /\ find_one(id) # {}) =>
            LET clan == clan_at(id) IN
            /\ last' = SUCCESS =>
                /\ RoleAtLeast(clan, JidFrom(ticket), RoleMember)
                /\ status_of(clan, target) = Some(StatusPending)
                /\ clans' = save([clan EXCEPT !.members = retain_not(@, target)])
            /\ status_of(clan, target) \in {Some(StatusMember), Some(StatusInvited), None} =>
                /\ last' # SUCCESS
                /\ clans' = clans]_vars

(* C4 *)

\* C4: leave_clan by the clan's Leader is rejected and the Leader's row stays;
\* leave_clan succeeds only for a caller whose status is Member and whose role
\* is not Leader, and then removes exactly the caller's row.
C4_LeaderCannotLeave ==
    [][\A ticket \in Tickets, id \in Ids, db \in DbOutcomes :
        (leave_clan(ticket, id, db) /\ find_one(id) # {}) =>
            LET clan == clan_at(id)
                jid == JidFrom(ticket) IN
            /\ role_of(clan, jid) = Some(RoleLeader) =>
                /\ last' # SUCCESS
                /\ clans' = clans
            /\ last' = SUCCESS =>
                /\ status_of(clan, jid) = Some(StatusMember)
                /\ role_of(clan, jid) # Some(RoleLeader)
                /\ clans' = save([clan EXCEPT !.members = retain_not(@, jid)])]_vars

(* C5 *)

\* C5: record_blacklist_entry by a caller whose role is SubLeader or Leader,
\* for a target that is not a member of the clan, succeeds and leaves the
\* target on the persisted blacklist.
C5_RecordBlacklistEntry ==
    [][\A ticket \in Tickets, id \in Ids, target \in Jids :
        (/\ record_blacklist_entry(ticket, id, [valid |-> TRUE, jid |-> target], "ok")
         /\ find_one(id) # {}
         /\ RoleAtLeast(clan_at(id), JidFrom(ticket), RoleSubLeader)
         /\ ~HasStatus(clan_at(id), target, StatusMember)) =>
            /\ last' = SUCCESS
            /\ find_one(id)' # {}
            /\ is_blacklisted(clan_after(id), target)]_vars

(* C6 *)

BlacklistsAreSets ==
    \A c \in clans : \A i, k \in 1..Len(c.blacklist) :
        i # k => ~JidEq(c.blacklist[i], c.blacklist[k])

C8_CreateKeepsExisting ==
    [][\A ticket \in Tickets, id \in Ids, name \in NameInputs, tag \in TagInputs,
          db \in DbOutcomes :
        create_clan(ticket, id, name, tag, db) => \A c \in clans : c \in clans']_vars

(* C9 *)

\* Clans in which jid holds the role Leader / the status Member.
LeaderOf(jid) == { c \in clans : HasRole(c, jid, RoleLeader) }
FullMemberOf(jid) == { c \in clans : HasStatus(c, jid, StatusMember) }

\* C9: with name and tag within limits, create_clan succeeds exactly when the
\* caller is Leader of fewer than MAX_OWNERSHIP clans and a full Member of
\* fewer than MAX_MEMBERSHIP clans; on success the new clan has the caller as
\* its only row (Leader, Member) and the caller's platform; otherwise the
\* answer is ClanLeaderLimitReached or ClanJoinedLimitReached and no clan is
\* added.
C9_CreateExactlyWithinLimits ==
    [][\A ticket \in Tickets, id \in Ids, name \in NameInputs, tag \in TagInputs :
        (/\ create_clan(ticket, id, name, tag, "ok")
         /\ ByteLen(Take(name, MAX_CLAN_NAME_LENGTH)) <= MAX_CLAN_NAME_LENGTH
         /\ ByteLen(Take(tag, MAX_CLAN_TAG_LENGTH)) <= MAX_CLAN_TAG_LENGTH) =>
            LET jid == JidFrom(ticket) IN
            /\ last' = SUCCESS <=>
                /\ Cardinality(LeaderOf(jid)) < MAX_CLAN_OWNERSHIP
                /\ Cardinality(FullMemberOf(jid)) < MAX_CLAN_MEMBERSHIP
            /\ last' = SUCCESS =>
                /\ find_one(id)' # {}
                /\ clan_after(id).members = <<Player(jid, RoleLeader, StatusMember)>>
                /\ clan_after(id).platform = PlatformFrom(ticket)
            /\ last' # SUCCESS =>
                /\ last' \in {ClanLeaderLimitReached, ClanJoinedLimitReached}
                /\ clans' = clans]_vars

(* C10 *)

\* C10: disband_clan succeeds only when the caller is the clan's Leader, and
\* the clan is then absent from the store; any other caller is answered
\* PermissionDenied and the clan stays persisted unchanged.
C10_DisbandOnlyByLeader ==
    [][\A ticket \in Tickets, id \in Ids :
        (disband_clan(ticket, id, "ok") /\ find_one(id) # {}) =>
            LET clan == clan_at(id)
                jid == JidFrom(ticket) IN
            /\ last' = SUCCESS =>
                /\ HasRole(clan, jid, RoleLeader)
                /\ find_one(id)' = {}
            /\ ~HasRole(clan, jid, RoleLeader) =>
                /\ last' = PermissionDenied
                /\ clans' = clans]_vars

(* C11 *)

\* The caller's only row in the clan is an invitation.
InvitedOnly(clan, jid) ==
    /\ Cardinality(Rows(clan, jid)) = 1
    /\ status_of(clan, jid) = Some(StatusInvited)

\* The clan with jid's only row made a full member.
WithMemberRow(clan, jid) ==
    LET i == CHOOSE k \in Rows(clan, jid) : TRUE
    IN  [clan EXCEPT !.members[i] =
            Player(clan.members[i].jid, RoleMember, StatusMember)]

\* C11: accept_invitation by a player whose only row is an
\* invitation, whose ticket platform is the clan's, who is not blacklisted and
\* is a full member of fewer than MAX_CLAN_MEMBERSHIP clans succeeds and makes
\* the row (Member, Member), all else unchanged; accept_invitation by a player
\* whose row is already a full member answers MemberStatusInvalid and changes
\* nothing.
C11_InvitationLifecycle ==
    [][\A ticket \in Tickets, id \in ClanIds :
        (accept_invitation(ticket, id, "ok") /\ find_one(id) # {}) =>
            LET clan == clan_at(id)
                jid == JidFrom(ticket) IN
            /\ (/\ InvitedOnly(clan, jid)
                /\ clan.platform = PlatformFrom(ticket)
                /\ ~is_blacklisted(clan, jid)
                /\ Cardinality(FullMemberOf(jid)) < MAX_CLAN_MEMBERSHIP) =>
                    /\ last' = SUCCESS
                    /\ clans' = save(WithMemberRow(clan, jid))
            /\ (status_of(clan, jid) = Some(StatusMember) /\ ~is_blacklisted(clan, jid)) =>
                    /\ last' = MemberStatusInvalid
                    /\ clans' = clans]_vars

(* C12 *)

C15_KickOnlyPlainMember ==
    [][\A ticket \in Tickets, id \in Ids, target \in Jids :
        (/\ kick_member(ticket, id, [valid |-> TRUE, jid |-> target], "ok")
         /\ find_one(id) # {}) =>
            LET clan == clan_at(id)
                i == position(clan.members, target)
                kickable == /\ i # 0
                            /\ clan.members[i].status = StatusMember
                            /\ clan.members[i].role < RoleSubLeader IN
            /\ last' = SUCCESS =>
                /\ RoleAtLeast(clan, JidFrom(ticket), RoleSubLeader)
                /\ kickable
                /\ clans' = save([clan EXCEPT !.members =
                        SubSeq(@, 1, i - 1) \o SubSeq(@, i + 1, Len(@))])
            /\ ~kickable =>
                /\ last' # SUCCESS
                /\ clans' = clans]_vars

(* C16 *)

\* C16: change_member_role succeeds only when the caller's role is at least
\* SubLeader and the target has a row with status Member, and then only the
\* role of the target's row changes; for a target with no row the handler
\* answers an error response (it does not abort) and the clan is unchanged.
C16_ChangeRoleOfMemberOnly ==
    [][\A ticket \in Tickets, id \in Ids, target \in Jids, role \in RoleInputs :
        (/\ change_member_role(ticket, id, [valid |-> TRUE, jid |-> target], role, "ok")
         /\ find_one(id) # {}) =>
            LET clan == clan_at(id)
                i == position(clan.members, target) IN
            /\ last' = SUCCESS =>
                /\ RoleAtLeast(clan, JidFrom(ticket), RoleSubLeader)
                /\ status_of(clan, target) = Some(StatusMember)
                /\ clans' = save([clan EXCEPT !.members[i].role = RoleFrom(role)])
            /\ i = 0 =>
                /\ last' \in 1..255
                /\ clans' = clans]_vars

(* C17 *)

\* C17: whenever send_invitation succeeds, a cancel_invitation by the same
\* caller for the same target on the clan just persisted succeeds and writes
\* back the clan as it was before the send_invitation (members in order,
\* blacklist, announcements and scalar fields), also for a target that had
\* a Pending row.
C17_SendThenCancelRestores ==
    [][\A ticket \in Tickets, id \in Ids, target \in Jids :
        (/\ send_invitation(ticket, id, target, "ok")
         /\ find_one(id) # {}
         /\ last' = SUCCESS) =>
            LET before == clan_at(id)
                cancelled == cancel_invitation_body(clan_after(id), JidFrom(ticket), target) IN
            /\ cancelled.status = SUCCESS
            /\ cancelled.clan = before]_vars

(* C18 *)

\* C18: post_announcement and delete_announcement succeed only when the
\* caller's role is at least SubLeader; a caller with role Member and status
\* Member is answered PermissionDenied and the board is unchanged.
C18_BoardForSubLeaders ==
    [][\A ticket \in Tickets, id \in Ids, aid \in AnnouncementIds :
        LET clan == clan_at(id)
            jid == JidFrom(ticket)
            plain == /\ role_of(clan, jid) = Some(RoleMember)
                     /\ status_of(clan, jid) = Some(StatusMember)
            restricted ==
                /\ last' = SUCCESS => RoleAtLeast(clan, jid, RoleSubLeader)
                /\ plain => /\ last' = PermissionDenied
                            /\ clan_after(id).announcements = clan.announcements IN
        /\ \A expire_date \in ExpireInputs, now \in Times, later \in Times :
            (/\ post_announcement(ticket, id, AnnouncementFrom(aid, expire_date, now, later), "ok")
             /\ find_one(id) # {}) => restricted
        /\ (/\ delete_announcement(ticket, id, aid, "ok")
            /\ find_one(id) # {}) => restricted]_vars

(* C19 *)

\* The announcements not yet expired when the clock reads `now`.
live(announcements, now) == SelectSeq(announcements, LAMBDA a : a.date_expire > now)

\* The clock readings a request can be served at.
Clock == { t \in Times : Latest <= t }

\* C19: whatever the clock reads when retrieve_announcements is served, no
\* emitted item is an announcement whose date_expire is at or before that
\* reading: the expired ones are taken out before the window is cut, so the
\* emitted items are the window over the remaining ones.
C19_NoExpiredAnnouncement ==
    [][\A ticket \in Tickets, id \in ClanIds, start \in StartInputs, max \in MaxInputs :
        (/\ retrieve_announcements(ticket, id, start, max, "ok")
         /\ last'.status = SUCCESS) =>
            \A now \in Clock :
                LET kept == live(clan_at(id).announcements, now)
                    shown == window(kept, IF start - 1 > 0 THEN start - 1 ELSE 0, max) IN
                /\ \A k \in 1..Len(last'.items) :
                    \E i \in 1..Len(kept) : last'.items[k] = AnnouncementInfoFrom(kept[i])
                /\ start > MinI32 =>
                    last'.items = [k \in 1..Len(shown) |-> AnnouncementInfoFrom(shown[k])]]_vars

(* C20 *)

\* items[lo : hi] of a sequence (indices from 0, hi excluded).
Slice(s, lo, hi) ==
    [k \in 1..((IF hi < Len(s) THEN hi ELSE Len(s)) - lo) |-> s[lo + k]]

\* C20: for every list operation and every start >= 1 and max >= 1, the
\* emitted items are items[start-1 : start-1+max] of the sequence before
\* pagination in stored order (the member rows, the blacklist, the
\* announcements not expired, the caller's clans), results is the number of
\* emitted items and at most max, and total is the length of that sequence.
C20_Pagination ==
    [][\A start \in { n \in StartInputs : n >= 1 }, max \in { n \in MaxInputs : n >= 1 } :
        LET paginated(pre) ==
                /\ last'.status = SUCCESS
                /\ last'.items = Slice(pre, start - 1, start - 1 + max)
                /\ last'.results = Len(last'.items)
                /\ last'.results <= max
                /\ last'.total = Len(pre)
                /\ last'.total >= last'.results IN
        /\ \A id \in ClanIds :
            (get_member_list(id, start, max, "ok") /\ find_one(id) # {}) =>
                LET members == clan_at(id).members IN
                paginated([i \in 1..Len(members) |-> PlayerBasicInfoFrom(members[i])])
        /\ \A id \in ClanIds :
            (get_blacklist(id, start, max, "ok") /\ find_one(id) # {}) =>
                LET blacklist == clan_at(id).blacklist IN
                paginated([i \in 1..Len(blacklist) |-> BlacklistEntryFrom(blacklist[i])])
        /\ \A ticket \in Tickets, id \in ClanIds :
            (retrieve_announcements(ticket, id, start, max, "ok") /\ last'.status = SUCCESS) =>
                \A now \in Clock :
                    LET kept == live(clan_at(id).announcements, now) IN
                    paginated([i \in 1..Len(kept) |-> AnnouncementInfoFrom(kept[i])])
        /\ \A ticket \in Tickets, insert \in {"ok", "write_err"} :
            get_clan_list(ticket, start, max, "ok", insert) =>
                LET data == find_clans(JidFrom(ticket)) IN
                paginated([i \in 1..Len(data) |->
                    masked(ClanPlayerInfoFrom(data[i], JidFrom(ticket)), PlatformFrom(ticket))])]_vars

(* C21 *)

\* C21: in a get_clan_list response, every row of a clan whose platform is
\* not the platform of the caller's ticket has role NonMember and status
\* Unknown, whatever the caller's stored row says; a row of a clan of the
\* caller's platform shows the stored role and status.
C21_ForeignPlatformMasked ==
    [][\A ticket \in Tickets, start \in StartInputs, max \in MaxInputs,
          insert \in {"ok", "write_err"} :
        (/\ get_clan_list(ticket, start, max, "ok", insert)
         /\ last'.status = SUCCESS) =>
            \A k \in 1..Len(last'.items) :
                LET row == last'.items[k]
                    clan == clan_at(row.id) IN
                IF clan.platform # PlatformFrom(ticket)
                THEN /\ row.role = RoleNonMember
                     /\ row.status = StatusUnknown
                ELSE /\ Some(row.role) = role_of(clan, JidFrom(ticket))
                     /\ Some(row.status) = status_of(clan, JidFrom(ticket))]_vars

(* C22 *)

\* C22: before pagination get_clan_list holds exactly the clans in which
\* role_of and status_of find the caller (a member row with the caller's
\* username, whatever its domain and region): total is their number, every
\* emitted row is one of them, and a window from the first item that is
\* long enough emits them all.
C22_ListsClansOfCaller ==
    [][\A ticket \in Tickets, start \in StartInputs, max \in MaxInputs,
          insert \in {"ok", "write_err"} :
        (/\ get_clan_list(ticket, start, max, "ok", insert)
         /\ last'.status = SUCCESS) =>
            LET mine == { c.id : c \in clans_of(JidFrom(ticket)) }
                emitted == { last'.items[k].id : k \in 1..Len(last'.items) } IN
            /\ last'.total = Cardinality(mine)
            /\ emitted \subseteq mine
            /\ (start \in {0, 1} /\ max >= Cardinality(mine)) => emitted = mine]_vars

-----------------------------------------------------------------------------
(* Claims on the wire *)

\* The errors of Ticket::from_bytes that come from verifying the signature.
SignatureErrors == {"Failed to verify signature!", "Invalid signature"}

\* C23: every failing request to a game endpoint is answered with the
\* <clan result=..> envelope carrying a non-zero code and an empty payload,
\* whether it failed in the body (malformed XML, a ticket that does not
\* decode, a signature that does not verify) or in the handler; a ticket
\* decode failure carries InvalidTicket and a signature failure
\* InvalidSignature.
C23_FailureIsErrorEnvelope ==
    (/\ last.stage = "answered"
     /\ \/ last.decoded.kind # "Ok"
        \/ last.response.status # SUCCESS) =>
        /\ last.wire.envelope
        /\ last.wire.result # StatusToString(SUCCESS)
        /\ last.wire.payload = "Empty"
        /\ (last.decoded.kind = "Err" /\ last.decoded.error \notin SignatureErrors) =>
                last.wire.result = StatusToString(InvalidTicket)
        /\ (last.decoded.kind = "Err" /\ last.decoded.error \in SignatureErrors) =>
                last.wire.result = StatusToString(InvalidSignature)

\* C24: the result attribute of an envelope is the status byte written as
\* two uppercase hexadecimal digits.
C24_ResultIsTwoHexDigits ==
    last.wire.envelope =>
        last.wire.result = <<Digits[(last.response.status \div 16) + 1],
                             Digits[(last.response.status % 16) + 1]>>


\* The date rules of a ticket at the clock reading `now`.
DateRules(issued_at, expires_at, now) ==
    /\ issued_at # 0
    /\ expires_at # 0
    /\ expires_at > issued_at
    /\ issued_at <= now + Leeway
    /\ expires_at <= now + Year

\* The errors of Ticket::from_bytes that come from the dates.
DateErrors ==
    {"Invalid issued or expiration date", "Expiration date is before issued date",
     "Issued date is in the future", "Issued or expiration date is too far in the future"}

\* The decoding of the request has come to the timestamps of the ticket.
DatesRead ==
    /\ last.stage # "received"
    /\ last.sent.xml
    /\ last.sent.base64
    /\ last.sent.bytes.len \in 212..400
    /\ last.sent.bytes.version \in {V2, V2_1, V3, V4}

\* C25: decoding accepts the two timestamps as read big-endian when they
\* satisfy the date rules; otherwise it byte-reverses both fields and accepts
\* exactly when the reversed values satisfy them, and fails when both
\* readings violate them.  Every accepted ticket has non-zero timestamps,
\* expires_at > issued_at, issued_at <= now + 5 minutes and
\* expires_at <= now + 1 year.
C25_TimestampsEitherEndianness ==
    DatesRead =>
        LET signed == last.sent.bytes.signed
            be == [issued_at |-> from_be_bytes(signed.issued),
                   expires_at |-> from_be_bytes(signed.expires)]
            le == [issued_at |-> from_be_bytes(reverse(signed.issued)),
                   expires_at |-> from_be_bytes(reverse(signed.expires))]
            big == DateRules(be.issued_at, be.expires_at, last.clock.now)
            little == DateRules(le.issued_at, le.expires_at, last.clock.later)
            refused == last.decoded.kind = "Err" /\ last.decoded.error \in DateErrors
            taken == last.decoded.kind = "Ok"
            ticket == last.decoded.ticket
        IN  /\ big => /\ ~refused
                      /\ taken => /\ ticket.issued_at = be.issued_at
                                     /\ ticket.expires_at = be.expires_at
            /\ (~big /\ little) =>
                      /\ ~refused
                      /\ taken => /\ ticket.issued_at = le.issued_at
                                     /\ ticket.expires_at = le.expires_at
            /\ (~big /\ ~little) => refused
            /\ taken =>
                \E now \in {last.clock.now, last.clock.later} :
                    DateRules(ticket.issued_at, ticket.expires_at, now)

\* A ticket is taken whose timestamps were read after reversing them.
C25_AcceptedReversed ==
    /\ DatesRead
    /\ last.decoded.kind = "Ok"
    /\ last.decoded.bytes.signed.issued # last.sent.bytes.signed.issued
    /\ last.decoded.ticket.issued_at = from_be_bytes(reverse(last.sent.bytes.signed.issued))

C27_DecodingIsTotal ==
    (last.stage # "received" /\ last.sent.xml /\ last.sent.base64) =>
        LET sent == last.sent.bytes IN
        /\ last.decoded.kind \in {"Ok", "Err"}
        /\ sent.len \notin 212..400 => last.decoded.kind = "Err"
        /\ (sent.version = V4 /\ sent.id = "RPCN") => last.decoded.kind = "Err"


-----------------------------------------------------------------------------
(* Claims on the admin service *)

\* The X-Admin-Token header of the last request equals the configured token.
TokenMatches ==
    \E token \in iter(last.env_token) :
        last.header = Some([visible |-> TRUE, value |-> token])

\* C28: no request whose path begins with /admin reaches a handler, and so
\* none creates a clan, unless its X-Admin-Token header equals the configured
\* ADMIN_TOKEN; a request to any other path is passed to its handler without
\* this check.
C28_AdminNeedsToken ==
    last # NoRequest =>
        IF starts_with(last.path, "/admin")
        THEN ~TokenMatches => (last.handler = "none" /\ ~last.saved)
        ELSE last.handler = route(last.method, last.path)

\* The admin route has created a clan for a request carrying the token.
C28_AdminCreatedClan ==
    /\ last.path = <<"/admin", "/clan/create">>
    /\ last.handler = "admin::create_clan"
    /\ TokenMatches
    /\ last.saved
    /\ last.status = SUCCESS
    /\ clans # {}


-----------------------------------------------------------------------------
(* C29 *)

\* C29: the platform stored when a clan was created is the platform of every
\* later persisted version of the clan with that id, whatever operations are
\* applied by whatever callers, until the clan is disbanded.
C29_PlatformNeverChanges ==
    [][\A id \in Ids :
        (find_one(id) # {} /\ find_one(id)' # {}) =>
            clan_after(id).platform = clan_at(id).platform]_vars


(* C30 *)

\* C30: in accept_invitation and request_membership the membership cap
\* counts only the clans in which the caller's own row has status Member: a
\* caller who is a full Member of fewer than MAX_CLAN_MEMBERSHIP clans is
\* never answered ClanJoinedLimitReached, however many clans hold an Invited
\* or Pending row for them.
C30_CapCountsFullMembership ==
    [][\A ticket \in Tickets, id \in ClanIds, db \in DbOutcomes \cup {"find_err"} :
        (/\ \/ accept_invitation(ticket, id, db)
            \/ request_membership(ticket, id, db)
         /\ Cardinality(FullMemberOf(JidFrom(ticket))) < MAX_CLAN_MEMBERSHIP) =>
            last' # ClanJoinedLimitReached]_vars


(* C31 *)

\* C31: a full member whose role is below SubLeader and who posts an
\* announcement is recorded as its author, and delete_announcement by a full
\* member below SubLeader of an announcement whose author they are succeeds
\* and removes it.
C31_PosterCanDelete ==
    [][\A ticket \in Tickets, id \in Ids, aid \in AnnouncementIds :
        LET clan == clan_at(id)
            jid == JidFrom(ticket)
            plain == /\ find_one(id) # {}
                     /\ HasStatus(clan, jid, StatusMember)
                     /\ ~RoleAtLeast(clan, jid, RoleSubLeader) IN
        /\ \A expire_date \in ExpireInputs, now \in Times, later \in Times :
            (/\ post_announcement(ticket, id, AnnouncementFrom(aid, expire_date, now, later), "ok")
             /\ plain
             /\ last' = SUCCESS) =>
                LET board == clan_after(id).announcements IN
                JidEq(board[Len(board)].author, jid)
        /\ (/\ delete_announcement(ticket, id, aid, "ok")
            /\ plain
            /\ \E i \in 1..Len(clan.announcements) :
                    /\ i = position_of(clan.announcements, aid)
                    /\ JidEq(clan.announcements[i].author, jid)) =>
                /\ last' = SUCCESS
                /\ Len(clan_after(id).announcements) = Len(clan.announcements) - 1]_vars


(* C32 *)

\* C32: for every start <= 1, the minimum 32-bit value included, and every
\* max >= 1, the list operations skip nothing: the response is the one start
\* = 1 gives, and the handler does not abort.
C32_StartClampedToFirst ==
    [][\A start \in { n \in StartInputs : n <= 1 }, max \in { n \in MaxInputs : n >= 1 } :
        /\ last'.status # Panicked
        /\ \A id \in ClanIds :
            get_member_list(id, start, max, "ok") => get_member_list(id, 1, max, "ok")
        /\ \A id \in ClanIds :
            get_blacklist(id, start, max, "ok") => get_blacklist(id, 1, max, "ok")
        /\ \A ticket \in Tickets, id \in ClanIds :
            retrieve_announcements(ticket, id, start, max, "ok") =>
                retrieve_announcements(ticket, id, 1, max, "ok")
        /\ \A ticket \in Tickets, insert \in {"ok", "write_err"} :
            get_clan_list(ticket, start, max, "ok", insert) =>
                get_clan_list(ticket, 1, max, "ok", insert)]_vars


(* C37 *)

\* C37: whenever a mutating handler returns a non-zero result code, the
\* clans collection is exactly as it was before the request.
C37_ErrorLeavesStore ==
    [][last' # SUCCESS => clans' = clans]_vars

\* A request was refused while the store held a clan.
C37_RefusedOnStoredClan ==
    /\ last \in {PermissionDenied, MemberStatusInvalid, InternalServerError}
    /\ clans # {}


(* C38 *)

\* C38: in every persisted clan, every row whose status is Invited or
\* Pending has role NonMember.
C38_WaitingRowsAreNonMember ==
    \A c \in clans : \A i \in 1..Len(c.members) :
        c.members[i].status \in {StatusInvited, StatusPending} =>
            c.members[i].role = RoleNonMember

\* A clan holds an invited or pending row beside a member whose role was
\* changed to SubLeader.
C38_WaitingBesidePromoted ==
    \E c \in clans : \E i, j \in 1..Len(c.members) :
        /\ c.members[i].status \in {StatusInvited, StatusPending}
        /\ c.members[j].role = RoleSubLeader
        /\ c.members[j].status = StatusMember

(* C39 *)

\* C39: no player has status Member in more than MAX_CLAN_MEMBERSHIP
\* persisted clans.
C39_MembershipCap ==
    \A ticket \in CapTickets :
        Cardinality(FullMemberOf(JidFrom(ticket))) <= MAX_CLAN_MEMBERSHIP

(* C40 *)

\* C40: no player is Leader of more than MAX_CLAN_OWNERSHIP persisted clans,
\* whether the clans were created by the player or the role was given by
\* change_member_role.
C40_OwnershipCap ==
    \A ticket \in Tickets :
        Cardinality(LeaderOf(JidFrom(ticket))) <= MAX_CLAN_OWNERSHIP



-----------------------------------------------------------------------------
(* Claims on handlers in flight *)

\* The handlers that returned success after writing the clan they had read.
Writers ==
    { i \in 1..Len(last.done) :
        /\ last.done[i].status = SUCCESS
        /\ last.done[i].call.op \in {"update_clan_info", "send_invitation"} }

(* C33: a handler that passed its guards on the clan it read returns success
   and the store then holds exactly the aggregate it computed from that read,
   whatever another handler wrote between its read and its write: the later
   store write wins whole, and the earlier writer's edit is not merged in. *)
C33_LastWriterWins ==
    [][\A k \in 1..Len(last.flights) :
        LET r == decide(last.flights[k]) IN
        finish(k) /\ r.status = SUCCESS /\ r.write = "save" =>
            /\ last'.done[Len(last'.done)].status = SUCCESS
            /\ find_one(FlightId)' = {r.clan}]_vars

\* send_invitation and update_clan_info read the same document, both returned
\* success, and the store holds the update's aggregate without the invitation.
C33_InvitationErased ==
    /\ last.flights = <<>>
    /\ \E i, j \in Writers :
        /\ i < j
        /\ last.done[i].call.op = "send_invitation"
        /\ last.done[j].call.op = "update_clan_info"
        /\ last.done[i].got = last.done[j].got
        /\ clans = {decide(last.done[j]).clan}
        /\ \A c \in clans : \A n \in 1..Len(c.members) : c.members[n].status # StatusInvited


(* C34: every step of every interleaving, cancellations included, either
   leaves the clans collection as it was or is the one store call of a
   handler whose guards passed on what it read: the handler is then no more
   in flight, and the document of its clan is the whole aggregate it computed
   (save) or is absent (delete). *)
C34_OneWholeWrite ==
    [][\/ clans' = clans
       \/ \E k \in 1..Len(last.flights) :
            LET r == decide(last.flights[k]) IN
            /\ r.status = SUCCESS
            /\ last'.flights = without(last.flights, k)
            /\ \/ r.write = "save" /\ find_one(FlightId)' = {r.clan}
               \/ r.write = "delete" /\ find_one(FlightId)' = {}]_vars

\* A handler was cancelled during its store call and the store completed the
\* call: no handler returned, and the clan carries the update.
C34_CancelledAfterWrite ==
    /\ last.calls >= 1
    /\ last.done = <<>>
    /\ last.flights = <<>>
    /\ \E c \in clans : c.description # <<>> /\ Len(c.members) = 2


\* The rows of the players collection for a ticket's triple.
RowsOf(ticket) == CopiesIn(JidFrom(ticket), players)

(* C35: once a get_clan_list call has returned success for a ticket, the
   players collection holds exactly one row for the ticket's triple. *)
C35_OneRowPerPlayer ==
    \A i \in 1..Len(last.done) :
        last.done[i].call.op = "get_clan_list" /\ last.done[i].status = SUCCESS =>
            RowsOf(last.done[i].call.ticket) = 1

(* C36: a clan disband_clan has returned success for is absent from the
   store (no create_clan runs in this specification). *)
C36_DisbandedStaysAbsent ==
    \A id \in last.disbanded : find_one(id) = {}

====
